---- MODULE Spec2Model ----
(***************************************************************************)
(* meal_randomizer (src/src/main.rs): load a directory of YAML recipes,    *)
(* filter them by season and ethnicity, print a random sample.             *)
(*                                                                         *)
(* Text is modelled as a sequence of tokens ("eastern", "_", "european"),  *)
(* a file name as its dot-separated segments (soup.yaml is                 *)
(* <<"soup","yaml">>, .yaml is <<"","yaml">>) and a path as the sequence   *)
(* of its components, so that spelling conversions and Path::ends_with are *)
(* computed, not assumed.  The fields name, ingredients and steps of       *)
(* Recipe are read by no operation of the program and are left out.        *)
(***************************************************************************)
EXTENDS Integers, Sequences, FiniteSets, TLC

VARIABLES
    pc,                \* position of the run
    args,              \* GetRandomRecipes, as parsed by clap
    fs,                \* the file system under args.recipes_dir
    pending,           \* directory entries read_dir has not yielded yet
    inner,             \* Recipes.inner : HashMap<PathBuf, Recipe>
    season_filter,     \* Recipes.season_filter : HashSet<SeasonFilter>
    ethnicity_filter,  \* Recipes.ethnicity_filter : HashSet<EthnicityFilter>
    keys,              \* the filtered (path, recipe) pairs, in map iteration order
    num_to_select,     \* the amount handed to choose_multiple
    reservoir,         \* choose_multiple's reservoir
    rest,              \* what choose_multiple's iterator has not yielded yet
    idx,               \* the index enumerate() gives the next element of rest
    selected,          \* the value randomly_select_recipes returns
    stdout,            \* lines printed to standard output
    exit_code,         \* "running", or the exit status of the process
    recipe,            \* the argument of a passes_filters call
    passed,            \* the value passes_filters returned
    spelling,          \* a list of tags as spelled in a recipe file or on the command line
    axis,              \* the enumeration spelling is parsed as
    fileTag,           \* serde's reading of spelling
    cliTag             \* clap's reading of spelling

vars == <<pc, args, fs, pending, inner, season_filter, ethnicity_filter, keys,
          num_to_select, reservoir, rest, idx, selected, stdout, exit_code,
          recipe, passed, spelling, axis, fileTag, cliTag>>

runVars == <<args, fs, pending, inner, season_filter, ethnicity_filter, keys,
             num_to_select, reservoir, rest, idx, selected, stdout, exit_code>>
filterVars == <<recipe, passed>>
tagVars == <<spelling, axis, fileTag, cliTag>>

None == "none"
Err == "Err"

(***************************************************************************)
(* Bounds of the model.                                                    *)
(***************************************************************************)
MaxNumRecipes == 2    \* args.num_recipes ranges over 0..MaxNumRecipes
MaxRecipes == 3       \* entries of Recipes.inner when a method is checked alone
MaxTags == 2          \* length of a recipe's tag vectors when passes_filters is checked alone
MaxSpelled == 2       \* length of a tag list when the two parsers are checked alone

ToSet(s) == {s[k] : k \in 1..Len(s)}
Min(a, b) == IF a < b THEN a ELSE b
SeqsUpTo(S, n) == UNION {[1..m -> S] : m \in 0..n}
Last(s) == s[Len(s)]

(***************************************************************************)
(* The two enumerations and their spellings.                               *)
(***************************************************************************)
SeasonFilter == {"Any", "Winter", "Spring", "Summer", "Fall"}

EthnicityFilter ==
    {"Any", "American", "Chinese", "EasternEuropean", "Ethiopian", "French",
     "Indian", "Japanese", "Mediteranean", "Mexican", "Spanish"}

Variants(ax) == IF ax = "season" THEN SeasonFilter ELSE EthnicityFilter

\* The words of a variant identifier, split at its capital letters, lowercased.
IdentWords(v) ==
    CASE v = "Any" -> <<"any">>
      [] v = "Winter" -> <<"winter">>
      [] v = "Spring" -> <<"spring">>
      [] v = "Summer" -> <<"summer">>
      [] v = "Fall" -> <<"fall">>
      [] v = "American" -> <<"american">>
      [] v = "Chinese" -> <<"chinese">>
      [] v = "EasternEuropean" -> <<"eastern", "european">>
      [] v = "Ethiopian" -> <<"ethiopian">>
      [] v = "French" -> <<"french">>
      [] v = "Indian" -> <<"indian">>
      [] v = "Japanese" -> <<"japanese">>
      [] v = "Mediteranean" -> <<"mediteranean">>
      [] v = "Mexican" -> <<"mexican">>
      [] v = "Spanish" -> <<"spanish">>

RECURSIVE Join(_, _)
Join(words, sep) ==
    IF Len(words) <= 1 THEN words
    ELSE <<words[1], sep>> \o Join(Tail(words), sep)

\* #[serde(rename_all = "snake_case")]: the name a variant has in a recipe file.
SerdeName(v) == Join(IdentWords(v), "_")

\* serde's Deserialize of a tag of a recipe file: the variant of that name, or an error.
Deserialize(ax, s) ==
    IF \E v \in Variants(ax) : SerdeName(v) = s
    THEN CHOOSE v \in Variants(ax) : SerdeName(v) = s
    ELSE Err

\* ValueEnum::to_possible_value: the name a variant has on the command line.
SeasonPossibleValue(v) ==
    CASE v = "Any" -> <<"any">>
      [] v = "Winter" -> <<"winter">>
      [] v = "Spring" -> <<"spring">>
      [] v = "Summer" -> <<"summer">>
      [] v = "Fall" -> <<"fall">>

EthnicityPossibleValue(v) ==
    CASE v = "Any" -> <<"any">>
      [] v = "American" -> <<"american">>
      [] v = "French" -> <<"french">>
      [] v = "Spanish" -> <<"spanish">>
      [] v = "Ethiopian" -> <<"ethiopian">>
      [] v = "Chinese" -> <<"chinese">>
      [] v = "Japanese" -> <<"japanese">>
      [] v = "EasternEuropean" -> <<"eastern", "-", "european">>
      [] v = "Mediteranean" -> <<"mediteranean">>
      [] v = "Indian" -> <<"indian">>
      [] v = "Mexican" -> <<"mexican">>

to_possible_value(ax, v) ==
    IF ax = "season" THEN SeasonPossibleValue(v) ELSE EthnicityPossibleValue(v)

\* clap's value parser of a ValueEnum: the variant whose possible value is s.
ValueParse(ax, s) ==
    IF \E v \in Variants(ax) : to_possible_value(ax, v) = s
    THEN CHOOSE v \in Variants(ax) : to_possible_value(ax, v) = s
    ELSE Err

(***************************************************************************)
(* Paths.                                                                  *)
(***************************************************************************)
\* Path::ends_with: child's components are the last components of path.
Path_ends_with(path, child) ==
    /\ Len(child) <= Len(path)
    /\ SubSeq(path, Len(path) - Len(child) + 1, Len(path)) = child

DotYaml == <<"", "yaml">>      \* the file name .yaml
DotYml == <<"", "yml">>        \* the file name .yml

\* The test from_args applies to a directory entry's path.
IsRecipePath(path) ==
    Path_ends_with(path, <<DotYaml>>) \/ Path_ends_with(path, <<DotYml>>)

(***************************************************************************)
(* Recipes::passes_filters.                                                *)
(***************************************************************************)
\* A variant of AnyIn in which a recipe's own Any tag matches every filter set.
AnyIn_recipe_wildcard(tags, filter) ==
    "Any" \in ToSet(tags) \/ \E k \in 1..Len(tags) : tags[k] \in filter

\* Iterator::any over a Vec: some element satisfies the membership test.
AnyIn(tags, filter) == \E k \in 1..Len(tags) : tags[k] \in filter

passes_ethnicity_filter(ef, r) == "Any" \in ef \/ AnyIn(r.ethnicities, ef)

\* A variant of passes_season_filter in which an empty filter set constrains nothing.
passes_season_filter_empty_is_any(sf, r) ==
    sf = {} \/ "Any" \in sf \/ AnyIn(r.seasons, sf)

passes_season_filter(sf, r) == "Any" \in sf \/ AnyIn(r.seasons, sf)

\* A variant of passes_filters that joins the two axes with || instead of &&.
passes_filters_either_axis(sf, ef, r) ==
    passes_ethnicity_filter(ef, r) \/ passes_season_filter(sf, r)

passes_filters(sf, ef, r) ==
    passes_ethnicity_filter(ef, r) /\ passes_season_filter(sf, r)

(***************************************************************************)
(* Recipes::randomly_select_recipes and IteratorRandom::choose_multiple.   *)
(***************************************************************************)
\* The orders in which a HashMap may yield the keys S.
KeyOrders(S) ==
    {o \in [1..Cardinality(S) -> S] : \A a, b \in DOMAIN o : a # b => o[a] # o[b]}

\* .map(|p| (p, self.inner.get(p).unwrap()))
Pairs(order, in) == [k \in DOMAIN order |-> <<order[k], in[order[k]]>>]

\* A variant of FilteredKeys whose filter forgets the ethnicity axis.
FilteredKeys_season_only(order, in, sf, ef) ==
    LET Keep(e) == passes_season_filter(sf, e[2])
    IN  SelectSeq(Pairs(order, in), Keep)

\* .filter(|(_p, r)| self.passes_filters(r)).collect::<Vec<_>>()
FilteredKeys(order, in, sf, ef) ==
    LET Keep(e) == passes_filters(sf, ef, e[2])
    IN  SelectSeq(Pairs(order, in), Keep)

\* A variant of NumToSelect with the comparison turned round (the larger of the two).
NumToSelect_larger(len, num_recipes) == IF len > num_recipes THEN len ELSE num_recipes

\* let num_to_select = if keys.len() < num_recipes { keys.len() } else { num_recipes }
NumToSelect(len, num_recipes) == IF len < num_recipes THEN len ELSE num_recipes

\* reservoir.extend(self.by_ref().take(amount)): what the reservoir receives ...
TakeFirst(ks, amount) == SubSeq(ks, 1, Min(amount, Len(ks)))

\* A variant of AfterTake in which take(amount) works on a copy of the iterator, so
\* that the loop starts again from the first element.
AfterTake_restart(ks, amount) == ks

\* ... and what the iterator still holds afterwards.
AfterTake(ks, amount) == SubSeq(ks, Min(amount, Len(ks)) + 1, Len(ks))

\* A variant of GenIndexRange that is one short: gen_index(rng, i + amount).
GenIndexRange_one_short(i, amount) == 0..(i + amount - 1)

\* gen_index(rng, i + 1 + amount): the values the random index may take.
GenIndexRange(i, amount) == 0..(i + 1 + amount - 1)

\* if let Some(slot) = reservoir.get_mut(k) { *slot = elem }
ReplaceSlot(res, k, elem) ==
    IF k < Len(res) THEN [res EXCEPT ![k + 1] = elem] ELSE res

\* .map(|(p, _r)| (*p).clone()).collect::<Vec<_>>()
ClonePaths(res) == [k \in DOMAIN res |-> res[k][1]]

\* The draws choose_multiple makes for an iterator of m further elements.
DrawSeqs(m, amount) ==
    {d \in [1..m -> 0..(m + amount)] : \A j \in 1..m : d[j] \in GenIndexRange(j - 1, amount)}

RECURSIVE RunDraws(_, _, _, _)
RunDraws(res, more, i, draws) ==
    IF more = <<>> THEN res
    ELSE RunDraws(ReplaceSlot(res, draws[i + 1], Head(more)), Tail(more), i + 1, draws)

\* choose_multiple as a function of the draws of the random generator.
ChooseMultiple(ks, amount, draws) ==
    IF Len(TakeFirst(ks, amount)) = amount
    THEN RunDraws(TakeFirst(ks, amount), AfterTake(ks, amount), 0, draws)
    ELSE TakeFirst(ks, amount)

(***************************************************************************)
(* The file system and the recipe files.                                   *)
(***************************************************************************)
RecipesDir == <<(<<"recipes">>)>>          \* args.recipes_dir
SoupYaml == <<"soup", "yaml">>           \* the file name soup.yaml
NotesTxt == <<"notes", "txt">>           \* the file name notes.txt
FileNames == {DotYaml, DotYml, SoupYaml, NotesTxt}

\* DirEntry::path(): the directory's path joined with the entry's file name.
EntryPath(dir, name) == Append(dir, name)

Unreadable == [kind |-> "unreadable", seasons |-> <<>>, ethnicities |-> <<>>]
Malformed == [kind |-> "malformed", seasons |-> <<>>, ethnicities |-> <<>>]
Yaml(s, e) == [kind |-> "yaml", seasons |-> s, ethnicities |-> e]

WinterFrenchFile == Yaml(<< <<"winter">> >>, << <<"french">> >>)
SummerMexicanFile == Yaml(<< <<"summer">> >>, << <<"mexican">> >>)
AnyAnyFile == Yaml(<< <<"any">> >>, << <<"any">> >>)
SnakeFile == Yaml(<< <<"fall">>, <<"winter">> >>, << <<"eastern", "_", "european">> >>)
KebabFile == Yaml(<< <<"winter">> >>, << <<"eastern", "-", "european">> >>)

YamlFiles == {WinterFrenchFile, SummerMexicanFile, AnyAnyFile, SnakeFile, KebabFile}

\* What a directory entry of that name may hold.
ContentsOf(name) ==
    IF name \in {DotYaml, DotYml} THEN {Unreadable, Malformed} \cup YamlFiles
    ELSE IF name = SoupYaml THEN {Malformed, WinterFrenchFile}
    ELSE {Malformed}

AllContents == {Unreadable, Malformed} \cup YamlFiles

Directories ==
    UNION {{e \in [present -> AllContents] : \A n \in present : e[n] \in ContentsOf(n)}
           : present \in SUBSET FileNames}

NoRecipe == [seasons |-> <<>>, ethnicities |-> <<>>]

\* serde_yaml::from_reader::<_, Recipe>: Ok(recipe) of a well-formed file, or an Err.
from_reader(content) ==
    LET s == [k \in DOMAIN content.seasons |-> Deserialize("season", content.seasons[k])]
        e == [k \in DOMAIN content.ethnicities |->
                 Deserialize("ethnicity", content.ethnicities[k])]
    IN  IF content.kind # "yaml" \/ Err \in ToSet(s) \/ Err \in ToSet(e)
        THEN [ok |-> FALSE, value |-> NoRecipe]
        ELSE [ok |-> TRUE, value |-> [seasons |-> s, ethnicities |-> e]]

\* The values clap may give args.season and args.ethnicity.
SeasonArgs == {<<>>, <<"Any">>, <<"Winter">>, <<"Summer", "Winter">>, <<"Winter", "Winter">>}
EthnicityArgs == {<<>>, <<"Any">>, <<"French">>, <<"Mexican", "French">>}

NoArgs == [season |-> <<>>, ethnicity |-> <<>>, recipes_dir |-> <<>>, num_recipes |-> 0]
NoFs == [exists |-> FALSE, entries |-> <<>>]

IdleFilterCall == recipe = NoRecipe /\ passed = None
Unparsed == [state |-> "unparsed", value |-> <<>>]
IdleTags == spelling = <<>> /\ axis = None /\ fileTag = Unparsed /\ cliTag = Unparsed
IdleSelect ==
    /\ keys = <<>> /\ num_to_select = 0 /\ reservoir = <<>> /\ rest = <<>> /\ idx = 0
    /\ selected = <<>> /\ stdout = <<>> /\ exit_code = "running"

(***************************************************************************)
(* main: from_args, randomly_select_recipes, println.                      *)
(***************************************************************************)
Init ==
    /\ pc = "from_args"
    /\ args \in [season : SeasonArgs, ethnicity : EthnicityArgs,
                 recipes_dir : {RecipesDir}, num_recipes : 0..MaxNumRecipes]
    /\ fs \in {NoFs} \cup [exists : {TRUE}, entries : Directories]
    /\ pending = {}
    /\ inner = <<>>
    /\ season_filter = {} /\ ethnicity_filter = {}
    /\ IdleSelect /\ IdleFilterCall /\ IdleTags

\* A panic (an unwrap of an Err): the process ends with status 101, nothing printed.
Panic ==
    /\ pc' = "exited"
    /\ exit_code' = "101"
    /\ UNCHANGED <<args, fs, inner, season_filter, ethnicity_filter, keys, num_to_select,
                   reservoir, rest, idx, selected, stdout>>

\* fs::read_dir(&args.recipes_dir).unwrap() on a directory that cannot be read
ReadDirFail ==
    /\ pc = "from_args" /\ ~fs.exists
    /\ Panic
    /\ UNCHANGED <<pending, filterVars, tagVars>>

\* fs::read_dir(&args.recipes_dir).unwrap() on a readable directory
ReadDirOk ==
    /\ pc = "from_args" /\ fs.exists
    /\ pending' = DOMAIN fs.entries
    /\ pc' = "read_dir"
    /\ UNCHANGED <<args, fs, inner, season_filter, ethnicity_filter, keys, num_to_select,
                   reservoir, rest, idx, selected, stdout, exit_code, filterVars, tagVars>>

\* one turn of the loop for an entry that fails the ends_with test
SkipEntry ==
    /\ pc = "read_dir"
    /\ \E name \in pending :
          /\ ~IsRecipePath(EntryPath(args.recipes_dir, name))
          /\ pending' = pending \ {name}
    /\ UNCHANGED <<pc, args, fs, inner, season_filter, ethnicity_filter, keys,
                   num_to_select, reservoir, rest, idx, selected, stdout, exit_code,
                   filterVars, tagVars>>

\* one turn of the loop for an entry that passes the test, opens and parses
LoadEntry ==
    /\ pc = "read_dir"
    /\ \E name \in pending :
          LET input_path == EntryPath(args.recipes_dir, name)
              content == fs.entries[name]
          IN  /\ IsRecipePath(input_path)
              /\ content.kind # "unreadable"
              /\ from_reader(content).ok
              /\ inner' = (input_path :> from_reader(content).value) @@ inner
              /\ pending' = pending \ {name}
    /\ UNCHANGED <<pc, args, fs, season_filter, ethnicity_filter, keys, num_to_select,
                   reservoir, rest, idx, selected, stdout, exit_code, filterVars, tagVars>>

\* one turn of the loop for an entry that passes the test and whose File::open or
\* serde_yaml::from_reader fails: the unwrap panics
LoadEntryFail ==
    /\ pc = "read_dir"
    /\ \E name \in pending :
          LET content == fs.entries[name]
          IN  /\ IsRecipePath(EntryPath(args.recipes_dir, name))
              /\ content.kind = "unreadable" \/ ~from_reader(content).ok
              /\ pending' = pending \ {name}
    /\ Panic
    /\ UNCHANGED <<filterVars, tagVars>>

\* the loop is over: Self { inner, season_filter, ethnicity_filter }
Construct ==
    /\ pc = "read_dir" /\ pending = {}
    /\ season_filter' = ToSet(args.season)
    /\ ethnicity_filter' = ToSet(args.ethnicity)
    /\ pc' = "select"
    /\ UNCHANGED <<args, fs, pending, inner, keys, num_to_select, reservoir, rest, idx,
                   selected, stdout, exit_code, filterVars, tagVars>>

\* randomly_select_recipes up to num_to_select
SelectKeys ==
    /\ pc = "select"
    /\ \E order \in KeyOrders(DOMAIN inner) :
          keys' = FilteredKeys(order, inner, season_filter, ethnicity_filter)
    /\ num_to_select' = NumToSelect(Len(keys'), args.num_recipes)
    /\ pc' = "choose_multiple"
    /\ UNCHANGED <<args, fs, pending, inner, season_filter, ethnicity_filter, reservoir,
                   rest, idx, selected, stdout, exit_code, filterVars, tagVars>>

\* choose_multiple: the reservoir takes the first amount elements
ChooseTake ==
    /\ pc = "choose_multiple"
    /\ reservoir' = TakeFirst(keys, num_to_select)
    /\ rest' = AfterTake(keys, num_to_select)
    /\ idx' = 0
    /\ pc' = IF Len(reservoir') = num_to_select THEN "replace" ELSE "collect"
    /\ UNCHANGED <<args, fs, pending, inner, season_filter, ethnicity_filter, keys,
                   num_to_select, selected, stdout, exit_code, filterVars, tagVars>>

\* choose_multiple: one turn of for (i, elem) in self.enumerate()
ChooseReplace ==
    /\ pc = "replace" /\ rest # <<>>
    /\ \E k \in GenIndexRange(idx, num_to_select) :
          reservoir' = ReplaceSlot(reservoir, k, Head(rest))
    /\ rest' = Tail(rest)
    /\ idx' = idx + 1
    /\ UNCHANGED <<pc, args, fs, pending, inner, season_filter, ethnicity_filter, keys,
                   num_to_select, selected, stdout, exit_code, filterVars, tagVars>>

\* choose_multiple returns the reservoir; randomly_select_recipes clones its paths
ChooseReturn ==
    /\ pc = "collect" \/ (pc = "replace" /\ rest = <<>>)
    /\ selected' = ClonePaths(reservoir)
    /\ pc' = "print"
    /\ UNCHANGED <<args, fs, pending, inner, season_filter, ethnicity_filter, keys,
                   num_to_select, reservoir, rest, idx, stdout, exit_code, filterVars,
                   tagVars>>

\* println!("{selected_recipe_paths:?}") and the return of main
Println ==
    /\ pc = "print"
    /\ stdout' = Append(stdout, selected)
    /\ exit_code' = "0"
    /\ pc' = "exited"
    /\ UNCHANGED <<args, fs, pending, inner, season_filter, ethnicity_filter, keys,
                   num_to_select, reservoir, rest, idx, selected, filterVars, tagVars>>

Next ==
    \/ ReadDirFail
    \/ ReadDirOk
    \/ SkipEntry
    \/ LoadEntry
    \/ LoadEntryFail
    \/ Construct
    \/ SelectKeys
    \/ ChooseTake
    \/ ChooseReplace
    \/ ChooseReturn
    \/ Println

Spec == Init /\ [][Next]_vars

(***************************************************************************)
(* randomly_select_recipes on its own, for every value of its receiver.    *)
(***************************************************************************)
RecipeFileNames ==
    << <<"a", "yaml">>, <<"b", "yaml">>, <<"c", "yaml">>, <<"d", "yaml">>,
       <<"e", "yaml">>, <<"f", "yaml">> >>

SelectPaths == {EntryPath(RecipesDir, RecipeFileNames[k]) : k \in 1..MaxRecipes}

SelectRecipes ==
    {[seasons |-> <<"Winter">>, ethnicities |-> <<"French">>],
     [seasons |-> <<"Summer">>, ethnicities |-> <<"Mexican">>]}

Collections == UNION {[present -> SelectRecipes] : present \in SUBSET SelectPaths}

InitSelect ==
    /\ pc = "select"
    /\ args \in [season : {<<>>}, ethnicity : {<<>>}, recipes_dir : {RecipesDir},
                 num_recipes : 0..MaxNumRecipes]
    /\ fs = NoFs
    /\ pending = {}
    /\ inner \in Collections
    /\ season_filter \in {{}, {"Any"}, {"Summer"}, {"Winter", "Summer"}}
    /\ ethnicity_filter \in {{"Any"}, {"French"}}
    /\ IdleSelect /\ IdleFilterCall /\ IdleTags

NextSelect ==
    \/ SelectKeys
    \/ ChooseTake
    \/ ChooseReplace
    \/ ChooseReturn

SpecSelect == InitSelect /\ [][NextSelect]_vars

(***************************************************************************)
(* passes_filters on its own, for every recipe and pair of filter sets.    *)
(***************************************************************************)
TagSeasons == {"Any", "Winter", "Summer"}
TagEthnicities == {"Any", "French", "Mexican"}

InitFilter ==
    /\ pc = "passes_filters"
    /\ recipe \in [seasons : SeqsUpTo(TagSeasons, MaxTags),
                   ethnicities : SeqsUpTo(TagEthnicities, MaxTags)]
    /\ season_filter \in SUBSET TagSeasons
    /\ ethnicity_filter \in SUBSET TagEthnicities
    /\ passed = None
    /\ args = NoArgs /\ fs = NoFs /\ pending = {} /\ inner = <<>>
    /\ IdleSelect /\ IdleTags

\* a call of Recipes::passes_filters
CallPassesFilters ==
    /\ pc = "passes_filters"
    /\ passed' = passes_filters(season_filter, ethnicity_filter, recipe)
    /\ pc' = "returned"
    /\ UNCHANGED <<runVars, recipe, tagVars>>

NextFilter == CallPassesFilters

SpecFilter == InitFilter /\ [][NextFilter]_vars

(***************************************************************************)
(* The two parsers of a list of tags: serde for a recipe file              *)
(* (seasons: [...], ethnicities: [...]) and clap for the command line      *)
(* (--season ..., --ethnicity ...).                                        *)
(***************************************************************************)
\* The lower/kebab-case name a value of the data model has: the enumeration
\* {Any, ..., EasternEuropean, ..., Mediterranean, ...} of the design.
DataModelName(v) ==
    IF v = "Mediteranean" THEN <<"mediterranean">> ELSE Join(IdentWords(v), "-")

Spellings(ax) ==
    UNION {{SerdeName(v), to_possible_value(ax, v), DataModelName(v)} : v \in Variants(ax)}

\* Vec<T> of a recipe file: every element deserializes, or the whole read fails.
DeserializeVec(ax, list) ==
    LET r == [k \in DOMAIN list |-> Deserialize(ax, list[k])]
    IN  IF Err \in ToSet(r) THEN [state |-> "err", value |-> <<>>]
        ELSE [state |-> "ok", value |-> r]

\* Vec<T> of the command line: every value parses, or clap rejects the command line.
ValueParseVec(ax, list) ==
    LET r == [k \in DOMAIN list |-> ValueParse(ax, list[k])]
    IN  IF Err \in ToSet(r) THEN [state |-> "err", value |-> <<>>]
        ELSE [state |-> "ok", value |-> r]

InitTags ==
    /\ pc = "tags"
    /\ axis \in {"season", "ethnicity"}
    /\ spelling \in UNION {[1..m -> Spellings(axis)] : m \in 1..MaxSpelled}
    /\ fileTag = Unparsed /\ cliTag = Unparsed
    /\ args = NoArgs /\ fs = NoFs /\ pending = {} /\ inner = <<>>
    /\ season_filter = {} /\ ethnicity_filter = {}
    /\ IdleSelect /\ IdleFilterCall

\* the tag list is read from a recipe file
DeserializeTags ==
    /\ pc = "tags" /\ fileTag = Unparsed
    /\ fileTag' = DeserializeVec(axis, spelling)
    /\ UNCHANGED <<pc, runVars, filterVars, spelling, axis, cliTag>>

\* the tag list is read from the command line
ValueParseTags ==
    /\ pc = "tags" /\ cliTag = Unparsed
    /\ cliTag' = ValueParseVec(axis, spelling)
    /\ UNCHANGED <<pc, runVars, filterVars, spelling, axis, fileTag>>

NextTags ==
    \/ DeserializeTags
    \/ ValueParseTags

SpecTags == InitTags /\ [][NextTags]_vars

(***************************************************************************)
(* Properties.                                                             *)
(***************************************************************************)
\* An axis passes when its filter set holds Any or shares a tag with the recipe.
AxisPasses(filter, tags) == "Any" \in filter \/ (ToSet(tags) \cap filter) # {}

\* The candidate set: the paths of the loaded recipes that pass both filters.
CandidatePaths ==
    {p \in DOMAIN inner : passes_filters(season_filter, ethnicity_filter, inner[p])}

\* randomly_select_recipes has built its candidate list.
KeysBuilt == pc \in {"choose_multiple", "replace", "collect", "print"} \/ (pc = "exited" /\ exit_code = "0")

\* randomly_select_recipes has returned.
Returned == pc = "print" \/ (pc = "exited" /\ exit_code = "0")

\* C1: passes_filters(r) is true iff both axes pass, an axis passing iff its filter
\* set holds Any or intersects the set of tags the recipe declares on that axis; the
\* result is a function of the tag sets and the filter sets alone, whatever the order
\* or repetition of the tags.
C1_PassesFilters ==
    pc = "returned" =>
        passed = (/\ AxisPasses(ethnicity_filter, recipe.ethnicities)
                  /\ AxisPasses(season_filter, recipe.seasons))

\* C1 witness: a call passes through the second of two season tags, no wildcard on
\* the season axis.
C1_Witness ==
    /\ pc = "returned" /\ passed = TRUE
    /\ "Any" \notin season_filter /\ "Any" \notin ethnicity_filter
    /\ Len(recipe.seasons) = 2
    /\ recipe.seasons[1] \notin season_filter

\* C2: with an empty season or ethnicity filter set no loaded recipe passes, the
\* candidate list is empty and randomly_select_recipes returns (and main prints) the
\* empty list, whatever the requested count and the recipes, those tagged Any included.
C2_EmptyFilterSelectsNothing ==
    (KeysBuilt /\ (season_filter = {} \/ ethnicity_filter = {})) =>
        /\ \A p \in DOMAIN inner :
              ~passes_filters(season_filter, ethnicity_filter, inner[p])
        /\ keys = <<>>
        /\ num_to_select = 0
        /\ selected = <<>>
        /\ (pc = "exited" => stdout = << <<>> >>)

\* C2 witness: a run with no --season value over a loaded recipe tagged Any, with a
\* positive requested count, has printed the empty list.
C2_Witness ==
    /\ pc = "exited" /\ exit_code = "0"
    /\ season_filter = {} /\ ethnicity_filter # {}
    /\ args.num_recipes > 0
    /\ \E p \in DOMAIN inner : "Any" \in ToSet(inner[p].seasons)
    /\ stdout = << <<>> >>

\* C3 as stated: an empty filter set on an axis gives the result that {Any} on that
\* axis gives, the other axis held fixed.
C3_EmptyIsWildcard ==
    pc = "returned" =>
        /\ season_filter = {} =>
              passed = passes_filters({"Any"}, ethnicity_filter, recipe)
        /\ ethnicity_filter = {} =>
              passed = passes_filters(season_filter, {"Any"}, recipe)

\* C3 as amended: an empty filter set on an axis is not the wildcard.  With an empty
\* set on an axis passes_filters is false for every recipe; with {Any} on an axis it
\* is true exactly when the other axis passes.
C3_EmptyIsNotWildcard ==
    pc = "returned" =>
        /\ (season_filter = {} \/ ethnicity_filter = {}) => passed = FALSE
        /\ season_filter = {"Any"} =>
              passed = AxisPasses(ethnicity_filter, recipe.ethnicities)
        /\ ethnicity_filter = {"Any"} =>
              passed = AxisPasses(season_filter, recipe.seasons)

\* C3 witness: a call with an empty season filter set and a wildcard ethnicity filter
\* on a recipe that declares seasons has returned false.
C3_Witness ==
    /\ pc = "returned" /\ passed = FALSE
    /\ season_filter = {} /\ "Any" \in ethnicity_filter
    /\ recipe.seasons # <<>>

\* C4: randomly_select_recipes(n) returns exactly min(n, |C|) paths, each the path
\* of a candidate, and fewer candidates than requested is no failure.
C4_CountAndMembership ==
    Returned =>
        /\ Len(selected) = Min(args.num_recipes, Cardinality(CandidatePaths))
        /\ \A k \in DOMAIN selected : selected[k] \in CandidatePaths
        /\ exit_code # "101"

\* C4 witness: the call has returned all of a non-empty candidate set smaller than
\* the requested count.
C4_Witness ==
    /\ pc = "print"
    /\ 0 < Cardinality(CandidatePaths)
    /\ Cardinality(CandidatePaths) < args.num_recipes
    /\ Cardinality(CandidatePaths) < Cardinality(DOMAIN inner)
    /\ Len(selected) = Cardinality(CandidatePaths)

\* C5: the list randomly_select_recipes returns holds no path twice.
C5_NoDuplicates ==
    Returned => \A a, b \in DOMAIN selected : a # b => selected[a] # selected[b]

\* C5 witness: the call has returned two paths, one of them put into the reservoir
\* by a random replacement.
C5_Witness ==
    /\ pc = "print"
    /\ Len(selected) >= 2
    /\ ToSet(selected) # ToSet(ClonePaths(TakeFirst(keys, num_to_select)))

\* C6: when the requested count is at least the number of candidates, the result
\* holds every candidate path exactly once, whatever the random choice.
C6_Completeness ==
    (Returned /\ args.num_recipes >= Cardinality(CandidatePaths)) =>
        /\ ToSet(selected) = CandidatePaths
        /\ Len(selected) = Cardinality(CandidatePaths)

\* C6 witness: the call has returned with the requested count equal to the number of
\* candidates, two or more, and a recipe filtered out.
C6_Witness ==
    /\ pc = "print"
    /\ args.num_recipes = Cardinality(CandidatePaths)
    /\ Cardinality(CandidatePaths) >= 2
    /\ Cardinality(CandidatePaths) < Cardinality(DOMAIN inner)

\* The k-element subsets of S.
KSubsets(S, k) == {T \in SUBSET S : Cardinality(T) = k}

\* The number of draw sequences of the random generator, all equally likely, on
\* which choose_multiple returns the paths T.
Ways(ks, amount, T) ==
    Cardinality({d \in DrawSeqs(Len(ks) - amount, amount) :
                    ToSet(ClonePaths(ChooseMultiple(ks, amount, d))) = T})

\* C9: for M candidates and k <= M, every k-subset of the candidates is the result on
\* the same positive number of equally likely draw sequences, so each is equally
\* likely, in whatever order the map yields the candidates; and the list returned is
\* the result of one of these draw sequences.
C9_UniformSubsets ==
    /\ pc = "choose_multiple" =>
          \A T1, T2 \in KSubsets(ToSet(ClonePaths(keys)), num_to_select) :
              /\ Ways(keys, num_to_select, T1) = Ways(keys, num_to_select, T2)
              /\ Ways(keys, num_to_select, T1) > 0
    /\ pc = "print" =>
          \E d \in DrawSeqs(Len(keys) - num_to_select, num_to_select) :
              ClonePaths(ChooseMultiple(keys, num_to_select, d)) = selected

\* C9 witness: the call has returned two of three candidates, the last one yielded
\* by the map among them.
C9_Witness ==
    /\ pc = "print"
    /\ Len(keys) = 3 /\ Len(selected) = 2
    /\ keys[3][1] \in ToSet(selected)

\* The file name ends in .yaml or .yml.
HasRecipeExtension(name) == Len(name) >= 2 /\ Last(name) \in {"yaml", "yml"}

\* The entries of the directory whose file name has a recipe-file extension.
RecipeEntries == {n \in DOMAIN fs.entries : HasRecipeExtension(n)}

\* The entry can be opened and parses to a Recipe.
WellFormed(n) == fs.entries[n].kind # "unreadable" /\ from_reader(fs.entries[n]).ok

\* from_args has returned.
Loaded == pc \in {"select", "choose_multiple", "replace", "collect", "print"}
              \/ (pc = "exited" /\ exit_code = "0")

\* C7: after from_args on a readable directory of well-formed files, the keys of the
\* collection are the paths of the entries whose file name has a recipe-file
\* extension (.yaml or .yml, as in soup.yaml).
C7_LoadsRecipeFiles ==
    (Loaded /\ \A n \in RecipeEntries : WellFormed(n)) =>
        DOMAIN inner = {EntryPath(args.recipes_dir, n) : n \in RecipeEntries}

\* C8: a run that prints a list and exits 0 has read its directory and has opened and
\* parsed every entry with a recipe-file extension; no bad file is skipped.
C8_FailFast ==
    (pc = "exited" /\ exit_code = "0") =>
        /\ fs.exists
        /\ \A n \in RecipeEntries : WellFormed(n)

\* C10: a tag has one spelling, the lower/kebab-case name of its value in the data
\* model, accepted in a recipe file and on the command line alike: the two parsers
\* agree on every list of tags, and both read a list of data-model names as the
\* values of those names.
C10_OneSpelling ==
    (fileTag # Unparsed /\ cliTag # Unparsed) =>
        /\ fileTag = cliTag
        /\ (\A k \in DOMAIN spelling :
               \E v \in Variants(axis) : DataModelName(v) = spelling[k])
              => /\ fileTag.state = "ok"
                 /\ \A k \in DOMAIN spelling : DataModelName(fileTag.value[k]) = spelling[k]

====
